---- MODULE Spec2Model ----
(***************************************************************************)
(* A model of homeassistant/components/youtube/coordinator.py:             *)
(* get_upload_playlist_id and YouTubeDataUpdateCoordinator, whose          *)
(* _async_update_data fans one channel-list request out into one           *)
(* playlistItems request per returned channel and joins them with          *)
(* asyncio.gather.                                                         *)
(*                                                                         *)
(* Strings are sequences of one-character strings.  Optional values are    *)
(* records tagged by a "kind" field.                                       *)
(***************************************************************************)
EXTENDS Integers, Sequences, FiniteSets, TLC

VARIABLES
    config,      \* config_entry.options[CONF_CHANNELS]
    inflight,    \* invocations of _async_update_data that have not finished
    pc,          \* position of the latest _async_update_data coroutine
    service,     \* the outcome of self._auth.get_resource()
    channelReq,  \* channel_request, the channels().list request built
    listExec,    \* times channel_request.execute ran in this cycle
    response,    \* the response of channel_request.execute
    tasks,       \* the _compile_data sub-tasks handed to asyncio.gather
    data,        \* the local dict data of this cycle
    gatherExc,   \* the exception asyncio.gather's future holds
    error,       \* the exception _async_update_data raised
    result,      \* the mapping _async_update_data returned
    waiters,     \* refresh requests awaiting the in-flight cycle
    observed,    \* what each requester saw at the end of its cycle
    fnIn,        \* argument of get_upload_playlist_id
    fnOut        \* its result

vars == <<config, inflight, pc, service, channelReq, listExec, response, tasks,
          data, gatherExc, error, result, waiters, observed, fnIn, fnOut>>

cycleVars == <<pc, service, channelReq, listExec, response, tasks, data,
               gatherExc, error, result>>
hostVars == <<inflight, waiters, observed>>
fnVars == <<fnIn, fnOut>>

------------------------------------------------------------------------------
(* Bounds *)

MaxItems == 2      \* channel items in one channels().list response
MaxLen == 4        \* length of the ids given to get_upload_playlist_id

------------------------------------------------------------------------------
(* Values *)

None == [kind |-> "none"]

UC == <<"U", "C">>
UU == <<"U", "U">>

Alphabet == {"U", "C", "x"}

RECURSIVE StringsOfLen(_)
StringsOfLen(n) ==
    IF n = 0 THEN {<<>>}
    ELSE {<<c>> \o s : c \in Alphabet, s \in StringsOfLen(n - 1)}

Strings == UNION {StringsOfLen(n) : n \in 0..MaxLen}

ChannelIds == {<<"U", "C", "x">>, <<"U", "C", "U", "C">>}

Configs == {<<<<"U", "C", "x">>>>, <<<<"U", "C", "x">>, <<"U", "C", "U", "C">>>>}

Requesters == {"tick", "manual"}

\* channel["statistics"]["subscriberCount"] is a string of decimal digits.
SubscriberCountOf(id) == IF Len(id) = 3 THEN <<"0", "4", "2">> ELSE <<"1", "7">>

\* One item of a channels().list response.
ChannelItem(id) ==
    [id |-> id,
     title |-> <<"channel title">> \o id,
     thumbnail |-> <<"channel thumbnail">> \o id,
     subscriberCount |-> SubscriberCountOf(id)]

ChannelItems == {ChannelItem(id) : id \in ChannelIds}

\* One item of a playlistItems().list response.
VideoItem(v) ==
    [publishedAt |-> <<"publishedAt", v>>,
     title |-> <<"video title", v>>,
     description |-> <<"description", v>>,
     thumbnail |-> <<"video thumbnail", v>>,
     videoId |-> <<"videoId", v>>]

RECURSIVE SeqsUpTo(_, _)
SeqsUpTo(S, n) ==
    IF n = 0 THEN {<<>>}
    ELSE SeqsUpTo(S, n - 1) \cup
         {Append(s, x) : s \in {t \in SeqsUpTo(S, n - 1) : Len(t) = n - 1}, x \in S}

HttpError == [kind |-> "error"]
Ok(items) == [kind |-> "ok", items |-> items]

ListResponses == {Ok(s) : s \in SeqsUpTo(ChannelItems, MaxItems)} \cup {HttpError}

FeedResponses ==
    {Ok(<<>>), Ok(<<VideoItem("v1")>>), Ok(<<VideoItem("v2"), VideoItem("v1")>>),
     HttpError}

------------------------------------------------------------------------------
(* get_upload_playlist_id *)

\* str.replace(old, new, count): the first count occurrences, all when count < 0.
RECURSIVE Replace(_, _, _, _)
Replace(s, old, new, count) ==
    IF count = 0 \/ Len(s) < Len(old) THEN s
    ELSE IF SubSeq(s, 1, Len(old)) = old
         THEN new \o Replace(SubSeq(s, Len(old) + 1, Len(s)), old, new, count - 1)
         ELSE <<s[1]>> \o Replace(Tail(s), old, new, count)

get_upload_playlist_id_all(channel_id) == Replace(channel_id, UC, UU, -1)

get_upload_playlist_id(channel_id) == Replace(channel_id, UC, UU, 1)

------------------------------------------------------------------------------
(* Requests and records *)

ListMaxResults == 50
FeedMaxResults == 1

\* sep.join(parts)
RECURSIVE Join(_, _)
Join(sep, parts) ==
    IF Len(parts) = 0 THEN <<>>
    ELSE IF Len(parts) = 1 THEN parts[1]
    ELSE parts[1] \o sep \o Join(sep, Tail(parts))

\* service.channels().list(part=..., id=",".join(channels), maxResults=50)
ChannelRequest(channels) ==
    [kind |-> "channels.list",
     part |-> "snippet,statistics",
     id |-> Join(<<",">>, channels),
     maxResults |-> ListMaxResults]

FeedRequest_raw_id(channel_id) ==
    [kind |-> "playlistItems.list",
     part |-> "snippet,contentDetails",
     playlistId |-> channel_id,
     maxResults |-> FeedMaxResults]

\* service.playlistItems().list(part=..., playlistId=playlist_id, maxResults=1)
FeedRequest(channel_id) ==
    [kind |-> "playlistItems.list",
     part |-> "snippet,contentDetails",
     playlistId |-> get_upload_playlist_id(channel_id),
     maxResults |-> FeedMaxResults]

Digits == <<"0", "1", "2", "3", "4", "5", "6", "7", "8", "9">>
DigitValue(c) == (CHOOSE k \in 1..10 : Digits[k] = c) - 1

\* int(s) for a string of decimal digits
RECURSIVE ParseInt(_)
ParseInt(s) ==
    IF Len(s) = 0 THEN 0
    ELSE 10 * ParseInt(SubSeq(s, 1, Len(s) - 1)) + DigitValue(s[Len(s)])

LatestVideo_last(feed) ==
    LET video == feed.items[Len(feed.items)]
    IN  [published_at |-> video.publishedAt,
         title |-> video.title,
         description |-> video.description,
         thumbnail |-> video.thumbnail,
         video_id |-> video.videoId]

\* The record _get_latest_video returns for a feed response that has items.
LatestVideo(feed) ==
    LET video == feed.items[1]
    IN  [published_at |-> video.publishedAt,
         title |-> video.title,
         description |-> video.description,
         thumbnail |-> video.thumbnail,
         video_id |-> video.videoId]

\* The exception _get_latest_video raises on a feed response, "none" when it
\* returns: job.execute's error, or IndexError from response["items"][0].
FeedFault(feed) ==
    IF feed.kind = "error" THEN "HttpError"
    ELSE IF Len(feed.items) = 0 THEN "IndexError"
    ELSE "none"

\* The dict literal _compile_data stores for a channel.
CompileEntry(channel, latest) ==
    [id |-> channel.id,
     title |-> channel.title,
     icon |-> channel.thumbnail,
     latest_video |-> latest,
     subscriber_count |-> ParseInt(channel.subscriberCount)]

DataKey_playlist(channel) == get_upload_playlist_id(channel.id)

DataKey_title(channel) == channel.title

\* The key _compile_data stores the entry under.
DataKey(channel) == channel.id

\* d[key] = value
DataPut(d, key, value) ==
    [k \in DOMAIN d \cup {key} |-> IF k = key THEN value ELSE d[k]]

NewTask(channel) ==
    [channel |-> channel, pc |-> "new", job |-> None, execs |-> 0, resp |-> None]

FirstException_last(held, raised) == raised

\* asyncio.gather keeps the first exception a sub-task raises.
FirstException(held, raised) == IF held = None THEN raised ELSE held

CanReturn_early(ts, exc) == exc = None

CanReturn_partial(ts, exc) == \A i \in 1..Len(ts) : ts[i].pc \in {"done", "failed"}

\* asyncio.gather's future has a result: every sub-task finished, none raised.
CanReturn(ts, exc) == exc = None /\ \A i \in 1..Len(ts) : ts[i].pc = "done"

------------------------------------------------------------------------------
(* The host's update coordinator: refresh requests and their outcome.       *)
(* The variables of a cycle describe the latest cycle only: every call of  *)
(* _async_update_data has its own dict and its own sub-tasks, so what a     *)
(* sub-task of an earlier cycle still does touches none of them.            *)

Fresh ==
    /\ service = None
    /\ channelReq = None
    /\ listExec = 0
    /\ response = None
    /\ tasks = <<>>
    /\ data = <<>>
    /\ gatherExc = None
    /\ error = None
    /\ result = None

ShouldStart_always(n) == TRUE

\* The host starts a cycle only when none is in flight.
ShouldStart(n) == n = 0

\* The host calls _async_update_data, which starts with data = {} and awaits
\* get_resource.
BeginUpdate(r) ==
    /\ inflight' = inflight + 1
    /\ waiters' = {r}
    /\ observed' = [observed EXCEPT ![r] = None]
    /\ pc' = "auth"
    /\ service' = None
    /\ channelReq' = None
    /\ listExec' = 0
    /\ response' = None
    /\ tasks' = <<>>
    /\ data' = <<>>
    /\ gatherExc' = None
    /\ error' = None
    /\ result' = None
    /\ UNCHANGED <<config, fnVars>>

\* A request made while a cycle is in flight waits for that cycle.
JoinUpdate(r) ==
    /\ r \notin waiters
    /\ waiters' = waiters \cup {r}
    /\ observed' = [observed EXCEPT ![r] = None]
    /\ UNCHANGED <<config, inflight, cycleVars, fnVars>>

\* A refresh is requested, by the timer or on demand.
RequestRefresh(r) ==
    IF ShouldStart(inflight) THEN BeginUpdate(r) ELSE JoinUpdate(r)

\* _async_update_data has returned or raised: every waiting request sees the
\* outcome of this cycle.
HostFinish ==
    /\ pc \in {"returned", "failed"}
    /\ pc' = "ended"
    /\ inflight' = inflight - 1
    /\ observed' = [r \in Requesters |->
                      IF r \in waiters
                      THEN [kind |-> "seen", ok |-> pc = "returned"]
                      ELSE observed[r]]
    /\ waiters' = {}
    /\ UNCHANGED <<config, service, channelReq, listExec, response, tasks, data,
                   gatherExc, error, result, fnVars>>

------------------------------------------------------------------------------
(* _async_update_data *)

GetResourceFail_swallowed ==
    /\ pc = "auth"
    /\ service' = [kind |-> "raised"]
    /\ channelReq' = ChannelRequest(config)
    /\ pc' = "list_wait"
    /\ UNCHANGED <<config, hostVars, listExec, response, tasks, data, gatherExc,
                   error, result, fnVars>>

\* await self._auth.get_resource() raises: the refresh raises it.
GetResourceFail ==
    /\ pc = "auth"
    /\ service' = [kind |-> "raised"]
    /\ error' = [kind |-> "AuthError", task |-> 0]
    /\ pc' = "failed"
    /\ UNCHANGED <<config, hostVars, channelReq, listExec, response, tasks, data,
                   gatherExc, result, fnVars>>

\* get_resource returns the client; the channel ids are read, the list
\* request is built and its execute is handed to the executor.
GetResourceOk ==
    /\ pc = "auth"
    /\ service' = [kind |-> "client"]
    /\ channelReq' = ChannelRequest(config)
    /\ pc' = "list_wait"
    /\ UNCHANGED <<config, hostVars, listExec, response, tasks, data, gatherExc,
                   error, result, fnVars>>

\* The executor runs channel_request.execute.
ListExecute ==
    /\ pc = "list_wait"
    /\ response = None
    /\ listExec' = listExec + 1
    /\ \E resp \in ListResponses : response' = resp
    /\ UNCHANGED <<config, hostVars, pc, service, channelReq, tasks, data,
                   gatherExc, error, result, fnVars>>

\* The await of the list request ends: with its error, or with the response,
\* and then gather makes one _compile_data sub-task per item.
ListResume ==
    /\ pc = "list_wait"
    /\ response # None
    /\ IF response.kind = "error"
       THEN /\ error' = [kind |-> "HttpError", task |-> 0]
            /\ pc' = "failed"
            /\ UNCHANGED tasks
       ELSE /\ tasks' = [i \in 1..Len(response.items) |-> NewTask(response.items[i])]
            /\ pc' = "gather"
            /\ UNCHANGED error
    /\ UNCHANGED <<config, hostVars, service, channelReq, listExec, response, data,
                   gatherExc, result, fnVars>>

\* A sub-task runs to its first suspension: it builds the feed request of its
\* channel and hands execute to the executor.  The event loop runs the first
\* step of the sub-tasks in the order gather made them.
TaskStart(i) ==
    /\ i \in 1..Len(tasks)
    /\ tasks[i].pc = "new"
    /\ \A j \in 1..(i - 1) : tasks[j].pc # "new"
    /\ tasks' = [tasks EXCEPT ![i].pc = "wait",
                              ![i].job = FeedRequest(tasks[i].channel.id)]
    /\ UNCHANGED <<config, hostVars, pc, service, channelReq, listExec, response,
                   data, gatherExc, error, result, fnVars>>

\* The executor runs job.execute of a sub-task.
FeedExecute(i) ==
    /\ i \in 1..Len(tasks)
    /\ tasks[i].pc = "wait"
    /\ tasks[i].resp = None
    /\ \E resp \in FeedResponses :
         tasks' = [tasks EXCEPT ![i].resp = resp, ![i].execs = tasks[i].execs + 1]
    /\ UNCHANGED <<config, hostVars, pc, service, channelReq, listExec, response,
                   data, gatherExc, error, result, fnVars>>

\* A sub-task resumes with its feed response: it raises, and gather keeps the
\* first exception, or it stores the channel's entry in data.  The responses
\* are delivered after the first step of every sub-task has run.
TaskResume(i) ==
    /\ i \in 1..Len(tasks)
    /\ tasks[i].pc = "wait"
    /\ tasks[i].resp # None
    /\ \A j \in 1..Len(tasks) : tasks[j].pc # "new"
    /\ IF FeedFault(tasks[i].resp) # "none"
       THEN /\ tasks' = [tasks EXCEPT ![i].pc = "failed"]
            /\ gatherExc' = FirstException(gatherExc,
                                [kind |-> FeedFault(tasks[i].resp), task |-> i])
            /\ UNCHANGED data
       ELSE /\ tasks' = [tasks EXCEPT ![i].pc = "done"]
            /\ data' = DataPut(data, DataKey(tasks[i].channel),
                               CompileEntry(tasks[i].channel, LatestVideo(tasks[i].resp)))
            /\ UNCHANGED gatherExc
    /\ UNCHANGED <<config, hostVars, pc, service, channelReq, listExec, response,
                   error, result, fnVars>>

\* await asyncio.gather(...) raises the exception gather holds.
GatherRaise ==
    /\ pc = "gather"
    /\ gatherExc # None
    /\ ~CanReturn(tasks, gatherExc)
    /\ error' = gatherExc
    /\ pc' = "failed"
    /\ UNCHANGED <<config, hostVars, service, channelReq, listExec, response, tasks,
                   data, gatherExc, result, fnVars>>

\* await asyncio.gather(...) returns; return data.
GatherReturn ==
    /\ pc = "gather"
    /\ CanReturn(tasks, gatherExc)
    /\ result' = [kind |-> "mapping", data |-> data]
    /\ pc' = "returned"
    /\ UNCHANGED <<config, hostVars, service, channelReq, listExec, response, tasks,
                   data, gatherExc, error, fnVars>>

------------------------------------------------------------------------------
(* Specifications *)

Init ==
    /\ config \in Configs
    /\ inflight = 0
    /\ waiters = {}
    /\ observed = [r \in Requesters |-> None]
    /\ pc = "idle"
    /\ Fresh
    /\ fnIn = <<>>
    /\ fnOut = None

Next ==
    \/ \E r \in Requesters : RequestRefresh(r)
    \/ HostFinish
    \/ GetResourceFail
    \/ GetResourceOk
    \/ ListExecute
    \/ ListResume
    \/ \E i \in 1..MaxItems : TaskStart(i)
    \/ \E i \in 1..MaxItems : FeedExecute(i)
    \/ \E i \in 1..MaxItems : TaskResume(i)
    \/ GatherRaise
    \/ GatherReturn

Spec == Init /\ [][Next]_vars

\* get_upload_playlist_id applied to every string of the alphabet.
Derive ==
    /\ fnOut = None
    /\ fnOut' = [kind |-> "str", value |-> get_upload_playlist_id(fnIn)]
    /\ UNCHANGED <<config, hostVars, cycleVars, fnIn>>

InitFn ==
    /\ config \in Configs
    /\ inflight = 0
    /\ waiters = {}
    /\ observed = [r \in Requesters |-> None]
    /\ pc = "idle"
    /\ Fresh
    /\ fnIn \in Strings
    /\ fnOut = None

NextFn == Derive

SpecFn == InitFn /\ [][NextFn]_vars

------------------------------------------------------------------------------
(* Properties *)

Range(f) == {f[i] : i \in DOMAIN f}

Returned == result.kind = "mapping"

\* The refresh operation has ended, by return or by raise.
Ended == pc \in {"returned", "failed", "ended"}

SubTaskFailure == error.kind \in {"IndexError", "HttpError"} /\ error.task > 0

HasInfix(s, t) == \E p \in 1..(Len(s) + 1) : SubSeq(s, p, p + Len(t) - 1) = t

\* C1: whenever a feed lookup of the cycle has returned zero items, the refresh
\* has returned no mapping, and if it has ended it ended by raising the
\* failure of a sub-task.
C1_AllOrNothing ==
    (\E i \in 1..Len(tasks) : tasks[i].resp = Ok(<<>>)) =>
        /\ ~Returned
        /\ pc # "returned"
        /\ Ended => (pc \in {"failed", "ended"} /\ SubTaskFailure)

C1_Witness ==
    /\ pc = "failed"
    /\ \E i, j \in 1..Len(tasks) :
         /\ tasks[i].resp = Ok(<<>>)
         /\ tasks[j].pc = "done"
         /\ tasks[j].channel.id \in DOMAIN data

\* C2: once get_resource has raised, the refresh has failed with that error
\* and the cycle has built and executed no list request and no feed request.
C2_AuthFailureFirst ==
    service.kind = "raised" =>
        /\ pc \in {"failed", "ended"}
        /\ error.kind = "AuthError"
        /\ ~Returned
        /\ channelReq = None
        /\ listExec = 0
        /\ response = None
        /\ tasks = <<>>

C2_Witness ==
    /\ service.kind = "raised"
    /\ pc = "ended"
    /\ \E r \in Requesters : observed[r] = [kind |-> "seen", ok |-> FALSE]

ResponseIds == {response.items[i].id : i \in 1..Len(response.items)}

AllFetched == \A i \in 1..Len(tasks) : tasks[i].pc = "done"

\* C3 as stated: a returned mapping has exactly as many keys as the list
\* response has items, each key the id of a returned item and of its entry.
C3_OneKeyPerItem ==
    Returned =>
        /\ Cardinality(DOMAIN result.data) = Len(response.items)
        /\ DOMAIN result.data = ResponseIds
        /\ \A k \in DOMAIN result.data : result.data[k].id = k

\* C3: a returned mapping has one key per distinct id among the returned
\* channel items, so exactly N keys when the N items have pairwise distinct
\* ids; each key is the id of a returned item and of the entry stored under it.
C3_OneKeyPerDistinctId ==
    Returned =>
        /\ response.kind = "ok"
        /\ AllFetched
        /\ DOMAIN result.data = ResponseIds
        /\ Cardinality(DOMAIN result.data) = Cardinality(ResponseIds)
        /\ (\A i, j \in 1..Len(response.items) :
               response.items[i].id = response.items[j].id => i = j)
           => Cardinality(DOMAIN result.data) = Len(response.items)
        /\ \A k \in DOMAIN result.data : result.data[k].id = k

C3_Witness ==
    /\ Returned
    /\ Len(response.items) = 2
    /\ Cardinality(DOMAIN result.data) = 2
    /\ AllFetched

\* C4: whenever a mapping has been returned, there is one sub-task per item
\* of the list response, every sub-task has finished and stored its channel's
\* entry, and the cycle's dict is still the mapping that was returned.
C4_CompleteWhenVisible ==
    Returned =>
        /\ Len(tasks) = Len(response.items)
        /\ AllFetched
        /\ \A i \in 1..Len(tasks) : tasks[i].channel.id \in DOMAIN result.data
        /\ data = result.data

C4_Witness ==
    /\ pc = "ended"
    /\ Returned
    /\ Len(tasks) = 2
    /\ Cardinality(DOMAIN result.data) = 2
    /\ \A r \in Requesters : observed[r] = [kind |-> "seen", ok |-> TRUE]

\* C5 as stated: every key of a returned mapping is a configured channel id.
C5_KeysConfigured ==
    Returned => DOMAIN result.data \subseteq Range(config)

\* C5: every key of a returned mapping is the id of a channel item of the
\* cycle's list response; the keys are configured channel ids whenever the
\* list response holds only configured channels.
C5_KeysFromResponse ==
    Returned =>
        /\ \A k \in DOMAIN result.data :
              \E i \in 1..Len(response.items) : response.items[i].id = k
        /\ ResponseIds \subseteq Range(config)
           => DOMAIN result.data \subseteq Range(config)

C5_Witness ==
    /\ Returned
    /\ DOMAIN result.data # {}
    /\ ~(ResponseIds \subseteq Range(config))
    /\ channelReq = ChannelRequest(config)

\* The integer a subscriber count of the model's channel items stands for.
ExpectedCount(digits) == IF digits = <<"0", "4", "2">> THEN 42 ELSE 17

\* C8: every entry of a returned mapping holds the id, title and thumbnail of
\* a returned channel item with the entry's key, that item's subscriber count
\* as an integer, and the five fields of the first item of the feed response
\* one sub-task of that channel received.
C8_FieldsCopied ==
    Returned =>
        \A k \in DOMAIN result.data :
            \E i \in 1..Len(tasks) :
                LET channel == response.items[i]
                    video == tasks[i].resp.items[1]
                    entry == result.data[k]
                IN  /\ channel.id = k
                    /\ tasks[i].channel = channel
                    /\ entry.id = channel.id
                    /\ entry.title = channel.title
                    /\ entry.icon = channel.thumbnail
                    /\ entry.subscriber_count = ExpectedCount(channel.subscriberCount)
                    /\ entry.latest_video.published_at = video.publishedAt
                    /\ entry.latest_video.title = video.title
                    /\ entry.latest_video.description = video.description
                    /\ entry.latest_video.thumbnail = video.thumbnail
                    /\ entry.latest_video.video_id = video.videoId
                    /\ DOMAIN entry =
                         {"id", "title", "icon", "latest_video", "subscriber_count"}
                    /\ DOMAIN entry.latest_video =
                         {"published_at", "title", "description", "thumbnail", "video_id"}

C8_Witness ==
    /\ Returned
    /\ Cardinality(DOMAIN result.data) = 2
    /\ \E i, j \in 1..Len(tasks) :
          /\ Len(tasks[i].resp.items) = 2
          /\ Len(tasks[j].resp.items) = 1
          /\ result.data[tasks[i].channel.id].subscriber_count = 42

\* C6: at most one cycle is in flight and no request of a cycle is executed
\* twice; a refresh requested while a cycle is in flight starts no cycle and
\* issues no request, it waits for the cycle in flight; and when that cycle
\* ends every request waiting for it sees its outcome.
C6_SingleFlight ==
    /\ [](/\ inflight <= 1
          /\ listExec <= 1
          /\ \A i \in 1..Len(tasks) : tasks[i].execs <= 1
          /\ waiters # {} => (inflight = 1 /\ pc \notin {"idle", "ended"}))
    /\ [][(inflight >= 1 /\ waiters' # waiters /\ waiters' # {}) =>
             /\ waiters \subseteq waiters'
             /\ inflight' = inflight
             /\ <<pc', channelReq', listExec', response', tasks', data'>> =
                   <<pc, channelReq, listExec, response, tasks, data>>]_vars
    /\ [][(waiters # {} /\ waiters' = {}) =>
             /\ pc \in {"returned", "failed"}
             /\ \A r \in waiters :
                   observed'[r] = [kind |-> "seen", ok |-> pc = "returned"]]_vars

C6_Witness ==
    /\ pc = "ended"
    /\ listExec = 1
    /\ Len(tasks) = 2
    /\ \A r \in Requesters : observed[r] = [kind |-> "seen", ok |-> TRUE]

HasPrefixUC(s) == Len(s) >= 2 /\ s[1] = "U" /\ s[2] = "C"

\* C7: for a channel id that starts with "UC", get_upload_playlist_id returns
\* "UU" followed by the rest of the id unchanged.
C7_FirstPrefixReplaced ==
    (fnOut.kind = "str" /\ HasPrefixUC(fnIn)) =>
        /\ Len(fnOut.value) = Len(fnIn)
        /\ fnOut.value[1] = "U"
        /\ fnOut.value[2] = "U"
        /\ \A p \in 3..Len(fnIn) : fnOut.value[p] = fnIn[p]

C7_Witness ==
    /\ fnOut.kind = "str"
    /\ HasPrefixUC(fnIn)
    /\ \E p \in 3..(Len(fnIn) - 1) : fnIn[p] = "U" /\ fnIn[p + 1] = "C"

C10_RequestOrder ==
    /\ listExec <= 1
    /\ channelReq # None =>
          /\ service.kind = "client"
          /\ channelReq.kind = "channels.list"
          /\ \A k \in 1..Len(config) : HasInfix(channelReq.id, config[k])
          /\ Len(channelReq.id) =
                IF Len(config) = 1 THEN Len(config[1])
                ELSE Len(config[1]) + 1 + Len(config[2])
    /\ listExec = 1 => channelReq # None
    /\ pc \in {"gather", "returned"} => listExec = 1
    /\ (response # None) <=> (listExec = 1)
    /\ tasks # <<>> =>
          /\ listExec = 1
          /\ response.kind = "ok"
          /\ Len(tasks) = Len(response.items)
    /\ \A i \in 1..Len(tasks) :
          /\ tasks[i].channel = response.items[i]
          /\ tasks[i].execs <= 1
          /\ tasks[i].execs = 1 <=> tasks[i].resp # None
          /\ tasks[i].execs = 1 => tasks[i].job # None
          /\ tasks[i].job # None =>
                /\ tasks[i].job.kind = "playlistItems.list"
                /\ tasks[i].job.maxResults = 1
                /\ tasks[i].job.playlistId =
                      UU \o SubSeq(tasks[i].channel.id, 3, Len(tasks[i].channel.id))

C10_Witness ==
    /\ Ended
    /\ Len(config) = 2
    /\ listExec = 1
    /\ Len(tasks) = 2
    /\ \A i \in 1..Len(tasks) : tasks[i].execs = 1
    /\ \E i \in 1..Len(tasks) : tasks[i].pc = "failed"
    /\ \E i \in 1..Len(tasks) : tasks[i].channel.id = <<"U", "C", "U", "C">>

====
